---------------------------- MODULE Spec2Model ----------------------------
(***************************************************************************)
(* A model of safesql (src/safesql.go): the sink catalog builder           *)
(* (FindQueryMethods, FuncHasQuery), the entry point collector (FindMains),*)
(* the call graph walk (FindNonConstCalls) with the normalisation of the   *)
(* constant query texts, and the orchestration in main.                    *)
(*                                                                         *)
(* Specifications:                                                         *)
(*   Spec         main, from the command line to the exit status           *)
(*   SpecWalk     FindNonConstCalls over bounded call graphs and catalogs  *)
(*   SpecCatalog  FindQueryMethods over bounded library scopes             *)
(*   SpecMains    FindMains over bounded sets of loaded packages           *)
(*   SpecNorm     the whitespace normalisation over bounded texts          *)
(***************************************************************************)
EXTENDS Integers, Sequences, FiniteSets

VARIABLES
    pc,        \* position of the run
    flags,     \* main: [print, verbose, quiet], the -p -v -q flags
    pkgs,      \* main: flag.Args(), the package paths named on the command line
    lib,       \* the scope of package database/sql, as loaded
    units,     \* the packages of the loader.Program
    qms,       \* []*QueryMethod, the sink catalog
    mains,     \* []*ssa.Package returned by FindMains (indexes into units)
    cg,        \* the *callgraph.Graph handed to FindNonConstCalls
    cg0,       \* the graph as it was when FindNonConstCalls was entered
    okFuncs,   \* FindNonConstCalls: the whitelist map
    mi,        \* FindNonConstCalls: index of the range over qms (1-based)
    todo,      \* FindNonConstCalls: edges of node.In not yet ranged over
    edge,      \* FindNonConstCalls: the loop variable edge
    bad,       \* FindNonConstCalls: []ssa.CallInstruction
    queries,   \* FindNonConstCalls: []string
    exitCode,  \* process exit status, -1 while running
    out,       \* what main printed, one tag per message
    started,   \* the stages of main that have been entered
    query,     \* normalisation: the text to clean
    clean,     \* normalisation: the cleaned text
    again      \* normalisation: the cleaned text, cleaned once more

vars == <<pc, flags, pkgs, lib, units, qms, mains, cg, cg0, okFuncs, mi, todo,
          edge, bad, queries, exitCode, out, started, query, clean, again>>

normVars == <<query, clean, again>>
walkVars == <<cg, cg0, okFuncs, mi, todo, edge, bad, queries>>
mainVars == <<flags, pkgs, exitCode, out, started>>
progVars == <<lib, units>>

(***************************************************************************)
(* Bounds of the model.                                                    *)
(***************************************************************************)
MaxLen == 4
MaxParams == 2
MaxMethods == 2
MaxPkgs == 2
MaxSites == 1

\* All sequences over S of length at most n.
SeqsUpTo(S, n) == UNION {[1..k -> S] : k \in 0..n}

SeqToSet(s) == {s[i] : i \in 1..Len(s)}

(***************************************************************************)
(* Texts are sequences of characters.  The alphabet has one member of each *)
(* class the regular expression and strings.TrimSpace tell apart.          *)
(***************************************************************************)
SP == " "
DQ == "\""
BS == "\\"
NBSP == "U+00A0"

Chars == {"a", SP, DQ, BS, "n", "t", NBSP}

\* The class \s of the regular expression: [\t\n\f\r ].
ReSpace == {SP}

\* The letters that make an escape with a preceding backslash: \\n \\t \\r.
EscapeLetters == {"n", "t", "r"}

\* unicode.IsSpace, which strings.TrimSpace uses: \s and more (U+0085, U+00A0, \v).
UnicodeSpace == {SP, NBSP}

\* The length of the one alternative of ([\s"]|\\n|\\t|\\r) that matches at i, or 0.
AltLen(s, i) ==
    IF i > Len(s) THEN 0
    ELSE IF s[i] \in ReSpace \cup {DQ} THEN 1
    ELSE IF s[i] = BS /\ i < Len(s) /\ s[i + 1] \in EscapeLetters THEN 2
    ELSE 0

\* The greedy +: the position after the longest run of alternatives from i.
RECURSIVE RunEnd(_, _)
RunEnd(s, i) == IF AltLen(s, i) = 0 THEN i ELSE RunEnd(s, i + AltLen(s, i))

ReplacementEmpty == <<>>

\* The replacement text " " of ReplaceAllString.
Replacement == <<SP>>

\* whitespaceRegexp.ReplaceAllString(s, " "), from position i on.
RECURSIVE ReplaceFrom(_, _)
ReplaceFrom(s, i) ==
    IF i > Len(s) THEN <<>>
    ELSE IF AltLen(s, i) > 0 THEN Replacement \o ReplaceFrom(s, RunEnd(s, i))
    ELSE <<s[i]>> \o ReplaceFrom(s, i + 1)

ReplaceAllString(s) == ReplaceFrom(s, 1)

RECURSIVE TrimLeft(_)
TrimLeft(s) ==
    IF s # <<>> /\ Head(s) \in UnicodeSpace THEN TrimLeft(Tail(s)) ELSE s

RECURSIVE TrimRight(_)
TrimRight(s) ==
    IF s # <<>> /\ s[Len(s)] \in UnicodeSpace
    THEN TrimRight(SubSeq(s, 1, Len(s) - 1)) ELSE s

TrimSpace(s) == TrimRight(TrimLeft(s))

\* clean := strings.TrimSpace(whitespaceRegexp.ReplaceAllString(query, " "))
Clean(s) == TrimSpace(ReplaceAllString(s))

(***************************************************************************)
(* The scope of package database/sql.  A scope is the sequence of its      *)
(* objects in the order of scope.Names(); an object has a name, a kind     *)
(* (a *types.TypeName or something else, here a *types.Func), its own      *)
(* parameters when it is a function and its explicit methods when it is a  *)
(* named type.  A method has a name and its declared parameters, each a    *)
(* name and a type.                                                        *)
(***************************************************************************)

\* Object.Exported(): the name starts with an upper-case letter.
Exported(name) == name \in {"DB", "Open", "Query", "Exec", "Prepare", "PrepareContext"}

FuncHasQueryAnyType(params) ==
    LET hits == {i \in 1..Len(params) : params[i].name = "query"}
    IN  IF hits = {} THEN [offset |-> 0, ok |-> FALSE]
        ELSE [offset |-> (CHOOSE i \in hits : \A j \in hits : i <= j) - 1, ok |-> TRUE]

\* The loop of FuncHasQuery from index i (zero-based, params.At(i) = params[i + 1]).
RECURSIVE FuncHasQueryFrom(_, _)
FuncHasQueryFrom(params, i) ==
    IF i >= Len(params) THEN [offset |-> 0, ok |-> FALSE]
    ELSE IF params[i + 1].name = "query" /\ params[i + 1].type = "string"
         THEN [offset |-> i, ok |-> TRUE]
         ELSE FuncHasQueryFrom(params, i + 1)

FuncHasQuery(params) == FuncHasQueryFrom(params, 0)

\* A method is identified by its receiver type's name and its own name; the
\* *types.Func and the *ssa.Function of a method are that same identity.
FuncValue(typeName, methodName) == <<typeName, methodName>>

\* The inner loop of FindQueryMethods over the methods of named type o, from i.
RECURSIVE MethodLoop(_, _, _)
MethodLoop(o, i, methods) ==
    IF i > Len(o.methods) THEN methods
    ELSE LET m == o.methods[i]
             r == FuncHasQuery(m.params)
         IN  IF ~Exported(m.name) THEN MethodLoop(o, i + 1, methods)
             ELSE IF r.ok
                  THEN MethodLoop(o, i + 1,
                          Append(methods, [Func     |-> FuncValue(o.name, m.name),
                                           SSA      |-> FuncValue(o.name, m.name),
                                           ArgCount |-> Len(m.params),
                                           Param    |-> r.offset]))
                  ELSE MethodLoop(o, i + 1, methods)

\* The outer loop of FindQueryMethods over scope.Names(), from k.
RECURSIVE ScopeLoop(_, _, _)
ScopeLoop(scope, k, methods) ==
    IF k > Len(scope) THEN methods
    ELSE LET o == scope[k]
         IN  IF ~Exported(o.name) THEN ScopeLoop(scope, k + 1, methods)
             ELSE IF o.kind # "TypeName" THEN ScopeLoop(scope, k + 1, methods)
             ELSE ScopeLoop(scope, k + 1, MethodLoop(o, 1, methods))

FindQueryMethods(scope) == ScopeLoop(scope, 1, <<>>)

(***************************************************************************)
(* The library scopes FindQueryMethods is checked on: the exported type DB *)
(* with up to MaxMethods of the methods Query, Exec and exec, each with    *)
(* any signature of at most MaxParams parameters named query or _ (Go      *)
(* allows no other name twice) and typed string or []byte; the exported    *)
(* function Open(query string); and the unexported type driverConn, with   *)
(* or without a method Query(query string).                                *)
(***************************************************************************)
Param(n, t) == [name |-> n, type |-> t]

ParamUniverse == {Param(n, t) : n \in {"query", "_"}, t \in {"string", "[]byte"}}

Signatures ==
    {s \in SeqsUpTo(ParamUniverse, MaxParams) :
        Cardinality({i \in 1..Len(s) : s[i].name = "query"}) <= 1}

Method(n, ps) == [name |-> n, params |-> ps]

TypeObject(n, ms) == [name |-> n, kind |-> "TypeName", params |-> <<>>, methods |-> ms]

FuncObject(n, ps) == [name |-> n, kind |-> "Func", params |-> ps, methods |-> <<>>]

\* The methods DB may declare, and the choices of at most MaxMethods of them,
\* in the order of declaration.
DBMethodNames == <<"Query", "Exec", "exec">>

DBMethodPicks ==
    {p \in SeqsUpTo(1..Len(DBMethodNames), MaxMethods) :
        \A i, j \in 1..Len(p) : i < j => p[i] < p[j]}

DBMethods(pick, sigs) == [i \in 1..Len(pick) |-> Method(DBMethodNames[pick[i]], sigs[i])]

ConnMethodLists == {<<>>, <<Method("Query", <<Param("query", "string")>>)>>}

Scope(ms, cs) ==
    <<TypeObject("DB", ms), FuncObject("Open", <<Param("query", "string")>>),
      TypeObject("driverConn", cs)>>

\* Every method declared in a scope, as <<index of its type, index among its methods>>.
DeclaredMethods(scope) ==
    UNION {{<<k, i>> : i \in 1..Len(scope[k].methods)} : k \in 1..Len(scope)}

(***************************************************************************)
(* The packages of the loader.Program.  A package has its name, whether it *)
(* is one of p.InitialPackages() (imported by name into the loader.Config) *)
(* and what ssaPkg.Func("main") finds: no such function (nil), a function  *)
(* main() or, in a package that is not named main, a function main with   *)
(* parameters.  Mains are named by their index in units.                   *)
(***************************************************************************)
Package(n, i, f) == [name |-> n, initial |-> i, main |-> f]

PackageUniverse ==
    {Package(n, i, f) : n \in {"main", "util"}, i \in BOOLEAN,
                        f \in {"nil", "func()", "func(int)"}}
    \ {Package("main", i, "func(int)") : i \in BOOLEAN}

\* p.InitialPackages(), as the indexes of the initial packages.
InitialPackages(us) == SelectSeq([i \in 1..Len(us) |-> i], LAMBDA i : us[i].initial)

PackageFunc(u, name) == IF name = "main" THEN u.main ELSE "nil"

\* The loop of FindMains over ips, from k.
RECURSIVE MainsLoop(_, _, _, _)
MainsLoop(us, ips, k, found) ==
    IF k > Len(ips) THEN found
    ELSE IF PackageFunc(us[ips[k]], "main") # "nil"
         THEN MainsLoop(us, ips, k + 1, Append(found, ips[k]))
         ELSE MainsLoop(us, ips, k + 1, found)

FindMains(us) == MainsLoop(us, InitialPackages(us), 1, <<>>)

(***************************************************************************)
(* Call graphs.  A function is named <<package or type, name>>.  A call    *)
(* site (ssa.CallInstruction) has a position, the function that holds it   *)
(* (Site.Parent()) and the arguments of its call (Site.Common().Args); an  *)
(* argument is an *ssa.Const with its value, or any other ssa.Value.  An   *)
(* edge is Caller --Site--> Callee; node.In of a node is the set of edges  *)
(* whose Callee it is.                                                     *)
(***************************************************************************)
RootFn == <<"", "<root>">>
NoFn == <<"", "">>
MainInit == <<"main", "init">>
MainMain == <<"main", "main">>
Prepare == FuncValue("DB", "Prepare")
PrepareContext == FuncValue("DB", "PrepareContext")
BoundPrepare == <<"DB", "Prepare$bound">>

\* fn.Synthetic != "": the root, package initializers, wrappers and thunks.
Synthetic(f) == f \in {RootFn, MainInit, BoundPrepare}

\* callgraph's isInit: a package initializer.
IsInit(f) == f[2] = "init"

NonConst == [const |-> FALSE, value |-> <<>>]
Const(v) == [const |-> TRUE, value |-> v]

Site(p, f, as) == [pos |-> p, parent |-> f, args |-> as]

\* The root's edges carry no call site.
NilSite == Site(0, NoFn, <<>>)

Edge(c, s, f) == [Caller |-> c, Site |-> s, Callee |-> f]

NoEdge == Edge(NoFn, NilSite, NoFn)

EmptyGraph == [nodes |-> {}, edges |-> {}]

InEdges(g, f) == {e \in g.edges : e.Callee = f}
OutEdges(g, f) == {e \in g.edges : e.Caller = f}

\* One turn of the loop of DeleteSyntheticNodes: the calls through w are inlined
\* (an edge from each caller's site to each callee of w, none twice) and w deleted.
InlineNode(g, w) ==
    [nodes |-> g.nodes \ {w},
     edges |-> {e \in g.edges \cup {Edge(i.Caller, i.Site, o.Callee) :
                                      i \in InEdges(g, w), o \in OutEdges(g, w)} :
                    e.Caller # w /\ e.Callee # w}]

\* cg.DeleteSyntheticNodes(): every synthetic node but the root and the package
\* initializers is inlined away.
RECURSIVE DeleteSyntheticNodes(_)
DeleteSyntheticNodes(g) ==
    LET doomed == {f \in g.nodes : f # RootFn /\ Synthetic(f) /\ ~IsInit(f)}
    IN  IF doomed = {} THEN g
        ELSE DeleteSyntheticNodes(InlineNode(g, CHOOSE w \in doomed : TRUE))

LookupNode(g, f) == g

\* cg.CreateNode(fn): the node of fn, added to the graph when it has none.
CreateNode(g, f) == [g EXCEPT !.nodes = @ \cup {f}]

\* constant.Value.ExactString() of a string constant: the quoted Go literal.
RECURSIVE QuoteBody(_)
QuoteBody(v) ==
    IF v = <<>> THEN <<>>
    ELSE (CASE Head(v) = "LF"  -> <<BS, "n">>
            [] Head(v) = "TAB" -> <<BS, "t">>
            [] Head(v) = DQ    -> <<BS, DQ>>
            [] Head(v) = BS    -> <<BS, BS>>
            [] OTHER           -> <<Head(v)>>) \o QuoteBody(Tail(v))

ExactString(v) == <<DQ>> \o QuoteBody(v) \o <<DQ>>

OkFuncsNone(catalog) == {}

\* The whitelist okFuncs: the SSA functions of the catalog.
OkFuncs(catalog) == {catalog[i].SSA : i \in 1..Len(catalog)}

AdjustArgsKeepReceiver(args, argCount) ==
    IF Len(args) = argCount + 1 THEN [ok |-> TRUE, args |-> SubSeq(args, 1, argCount)]
    ELSE IF Len(args) # argCount THEN [ok |-> FALSE, args |-> <<>>]
    ELSE [ok |-> TRUE, args |-> args]

\* "The first parameter is occasionally the receiver": the arguments the
\* parameter is looked up in, or the panic.
AdjustArgs(args, argCount) ==
    IF Len(args) = argCount + 1 THEN [ok |-> TRUE, args |-> Tail(args)]
    ELSE IF Len(args) # argCount THEN [ok |-> FALSE, args |-> <<>>]
    ELSE [ok |-> TRUE, args |-> args]

(***************************************************************************)
(* The inputs of the call graph walk.  The library is the type DB with     *)
(* Prepare(query string) and PrepareContext(ctx Context, query string), as *)
(* in database/sql, and the variants of it in which a parameter has another*)
(* name or type, so that either method may or may not be a sink.  A graph  *)
(* has the root with its two edges, and up to MaxSites call sites, each in *)
(* main.main or in DB.Prepare, with every argument list up to the length   *)
(* of the widest sink with its receiver, calling one or both of the two    *)
(* methods (a dynamic call) or the bound-method wrapper DB.Prepare$bound,  *)
(* which calls DB.Prepare.                                                 *)
(***************************************************************************)
PrepareParams(n) == <<Param(n, "string")>>

PrepareContextParams(t) == <<Param("ctx", "Context"), Param("query", t)>>

SampleScope(n, t) ==
    <<TypeObject("DB", <<Method("Prepare", PrepareParams(n)),
                         Method("PrepareContext", PrepareContextParams(t))>>),
      FuncObject("Open", <<Param("driverName", "string"), Param("dataSourceName", "string")>>)>>

SampleScopes == {SampleScope(n, t) : n \in {"query", "sql"}, t \in {"string", "[]byte"}}

Catalogs == {FindQueryMethods(sc) : sc \in SampleScopes}

\* The values of the string constants of the analysed program.
Literals == {<<"a">>, <<"a", SP, "LF", SP, "b">>}

ArgVals == {NonConst} \cup {Const(v) : v \in Literals}

\* Up to one argument more than the widest sink has parameters: its receiver.
ArgLists == SeqsUpTo(ArgVals, Len(PrepareContextParams("string")) + 1)

SiteChoices ==
    [parent : {MainMain, Prepare}, args : ArgLists,
     callees : {{Prepare}, {PrepareContext}, {Prepare, PrepareContext}, {BoundPrepare}}]

\* The call in the wrapper DB.Prepare$bound, with the bound receiver and the
\* wrapper's parameter; a synthetic function has no source position.
BoundSite == Site(0, BoundPrepare, <<NonConst, NonConst>>)

GraphOf(choices) ==
    LET siteEdges ==
            UNION {{Edge(choices[i].parent, Site(i, choices[i].parent, choices[i].args), f) :
                        f \in choices[i].callees} : i \in 1..Len(choices)}
        wrapperEdges ==
            IF \E i \in 1..Len(choices) : BoundPrepare \in choices[i].callees
            THEN {Edge(BoundPrepare, BoundSite, Prepare)} ELSE {}
        rootEdges == {Edge(RootFn, NilSite, MainInit), Edge(RootFn, NilSite, MainMain)}
        edges == siteEdges \cup wrapperEdges \cup rootEdges
    IN  [nodes |-> {e.Caller : e \in edges} \cup {e.Callee : e \in edges},
         edges |-> edges]

\* The call sites are numbered with those of main.main first.
MainFirst(c) ==
    \A i, j \in 1..Len(c) : i < j /\ c[j].parent = MainMain => c[i].parent = MainMain

(***************************************************************************)
(* Initial values of the variables a specification does not use.           *)
(***************************************************************************)
IdleMain ==
    /\ flags = [print |-> FALSE, verbose |-> FALSE, quiet |-> FALSE]
    /\ pkgs = <<>>
    /\ exitCode = -1
    /\ out = <<>>
    /\ started = {}

IdleProg == lib = <<>> /\ units = <<>>

IdleWalk ==
    /\ cg = EmptyGraph
    /\ cg0 = EmptyGraph
    /\ okFuncs = {}
    /\ mi = 0
    /\ todo = {}
    /\ edge = NoEdge
    /\ bad = <<>>
    /\ queries = <<>>

IdleNorm == query = <<>> /\ clean = <<>> /\ again = <<>>

(***************************************************************************)
(* FindNonConstCalls, one action per step of its loops.                    *)
(***************************************************************************)

\* Lines 179-192: the synthetic nodes are deleted and the whitelist is built.
WalkBegin ==
    /\ pc = "walk"
    /\ cg0' = cg
    /\ cg' = DeleteSyntheticNodes(cg)
    /\ okFuncs' = OkFuncs(qms)
    /\ queries' = <<>>
    /\ bad' = <<>>
    /\ mi' = 1
    /\ pc' = "range qms"
    /\ started' = started \cup {"walk"}
    /\ UNCHANGED <<todo, edge, flags, pkgs, exitCode, out, progVars, qms, mains, normVars>>

\* Lines 193-195: the next method of the catalog and its node.
WalkMethod ==
    /\ pc = "range qms"
    /\ mi <= Len(qms)
    /\ cg' = CreateNode(cg, qms[mi].SSA)
    /\ todo' = InEdges(cg', qms[mi].SSA)
    /\ pc' = "range node.In"
    /\ UNCHANGED <<cg0, okFuncs, mi, edge, bad, queries, mainVars, progVars, qms, mains, normVars>>

\* Line 196-198: the caller is a whitelisted function.
Skipped(e) == e.Site.parent \in okFuncs

ClassifyRaw(v) == [unsafe |-> ~v.const, text |-> ExactString(v.value)]

\* Lines 208-214: the verdict on the argument v.
Classify(v) == [unsafe |-> ~v.const, text |-> Clean(ExactString(v.value))]

\* Lines 195-215: one edge of node.In.
WalkEdge ==
    /\ pc = "range node.In"
    /\ \E e \in todo :
        LET m == qms[mi]
            adj == AdjustArgs(e.Site.args, m.ArgCount)
            c == Classify(adj.args[m.Param + 1])
        IN  /\ edge' = e
            /\ todo' = todo \ {e}
            /\ \/ /\ Skipped(e)
                  /\ UNCHANGED <<pc, bad, queries, exitCode>>
               \/ /\ ~Skipped(e)
                  /\ ~adj.ok
                  /\ pc' = "panic"
                  /\ exitCode' = 2
                  /\ UNCHANGED <<bad, queries>>
               \/ /\ ~Skipped(e)
                  /\ adj.ok
                  /\ c.unsafe
                  /\ bad' = Append(bad, e.Site)
                  /\ UNCHANGED <<pc, queries, exitCode>>
               \/ /\ ~Skipped(e)
                  /\ adj.ok
                  /\ ~c.unsafe
                  /\ queries' = Append(queries, c.text)
                  /\ UNCHANGED <<pc, bad, exitCode>>
    /\ UNCHANGED <<cg, cg0, okFuncs, mi, flags, pkgs, out, started, progVars, qms, mains, normVars>>

\* Line 195: node.In is exhausted.
WalkMethodDone ==
    /\ pc = "range node.In"
    /\ todo = {}
    /\ mi' = mi + 1
    /\ pc' = "range qms"
    /\ UNCHANGED <<cg, cg0, okFuncs, todo, edge, bad, queries, mainVars, progVars, qms, mains, normVars>>

\* Line 218: return bad, queries.
WalkReturn ==
    /\ pc = "range qms"
    /\ mi > Len(qms)
    /\ pc' = "returned"
    /\ UNCHANGED <<walkVars, mainVars, progVars, qms, mains, normVars>>

WalkNext == WalkBegin \/ WalkMethod \/ WalkEdge \/ WalkMethodDone \/ WalkReturn

InitWalk ==
    /\ pc = "walk"
    /\ qms \in Catalogs
    /\ \E k \in 0..MaxSites : \E c \in [1..k -> SiteChoices] :
          MainFirst(c) /\ cg = GraphOf(c)
    /\ cg0 = EmptyGraph
    /\ okFuncs = {}
    /\ mi = 0
    /\ todo = {}
    /\ edge = NoEdge
    /\ bad = <<>>
    /\ queries = <<>>
    /\ mains = <<>>
    /\ IdleMain /\ IdleProg /\ IdleNorm

SpecWalk == InitWalk /\ [][WalkNext]_vars

(***************************************************************************)
(* main, one action per stage.                                             *)
(***************************************************************************)
Exit(code, printed) ==
    /\ pc' = "exit"
    /\ exitCode' = code
    /\ out' = out \o printed

\* Lines 35-40: no package named on the command line.
ParseArgs ==
    /\ pc = "start"
    /\ IF Len(pkgs) = 0
       THEN Exit(2, <<"usage">>)
       ELSE pc' = "load" /\ UNCHANGED <<exitCode, out>>
    /\ UNCHANGED <<flags, pkgs, started, progVars, qms, mains, walkVars, normVars>>

\* database/sql itself, which main imports into the loader.Config.
SqlPackage == Package("sql", TRUE, "nil")

\* What c.Load() may return for the packages named: each a command (package
\* main with func main()) or a library, and maybe a dependency of theirs.
SampleUnits ==
    {<<SqlPackage>> \o named \o deps :
        named \in [1..Len(pkgs) -> {Package("main", TRUE, "func()"), Package("util", TRUE, "nil")}],
        deps \in {<<>>, <<Package("util", FALSE, "nil")>>}}

\* Lines 42-53: the packages are loaded and built, or the load fails.
Load ==
    /\ pc = "load"
    /\ started' = started \cup {"load"}
    /\ \/ /\ pc' = "exit"
          /\ exitCode' = 2
          /\ out' = Append(out, "error loading packages")
          /\ UNCHANGED progVars
       \/ /\ lib' \in SampleScopes
          /\ units' \in SampleUnits
          /\ pc' = "catalog"
          /\ UNCHANGED <<exitCode, out>>
    /\ UNCHANGED <<flags, pkgs, qms, mains, walkVars, normVars>>

\* Lines 55-62: the catalog is built, and listed in verbose mode.
Catalog ==
    /\ pc = "catalog"
    /\ started' = started \cup {"catalog"}
    /\ qms' = FindQueryMethods(lib)
    /\ out' = IF flags.verbose THEN Append(out, "catalog") ELSE out
    /\ pc' = "mains"
    /\ UNCHANGED <<flags, pkgs, exitCode, progVars, mains, walkVars, normVars>>

MainsUnchecked ==
    /\ pc = "mains"
    /\ started' = started \cup {"mains"}
    /\ mains' = FindMains(units)
    /\ pc' = "analyze"
    /\ UNCHANGED <<exitCode, out, flags, pkgs, progVars, qms, walkVars, normVars>>

\* Lines 64-68: the entry points are collected; without any the run ends.
Mains ==
    /\ pc = "mains"
    /\ started' = started \cup {"mains"}
    /\ mains' = FindMains(units)
    /\ IF Len(mains') = 0
       THEN Exit(2, <<"Did not find any commands">>)
       ELSE pc' = "analyze" /\ UNCHANGED <<exitCode, out>>
    /\ UNCHANGED <<flags, pkgs, progVars, qms, walkVars, normVars>>

\* The call site of the forwarding wrapper DB.Prepare, which calls
\* db.PrepareContext(context.Background(), query).
Forwarding ==
    [parent |-> Prepare, args |-> <<NonConst, NonConst, NonConst>>,
     callees |-> {PrepareContext}]

Call(as, fs) == [parent |-> MainMain, args |-> as, callees |-> fs]

\* The call graphs pointer.Analyze may return to main: a program that never
\* calls the library, and programs that call db.Prepare with a literal, with a
\* value built at run time, through a bound method value, through an interface
\* that *DB and another type implement, and with a call site the catalog's
\* parameter count does not fit.
SampleGraphs ==
    {GraphOf(<<>>)}
    \cup {GraphOf(<<Call(<<NonConst, a>>, {Prepare}), Forwarding>>) : a \in ArgVals}
    \cup {GraphOf(<<Call(<<a>>, {BoundPrepare}), Forwarding>>) : a \in ArgVals}
    \cup {GraphOf(<<Call(<<NonConst, NonConst, a>>, {PrepareContext})>>) : a \in ArgVals}
    \cup {GraphOf(<<Call(<<NonConst, a>>, {Prepare}), Call(<<NonConst, a>>, {Prepare}), Forwarding>>) :
            a \in ArgVals}
    \cup {GraphOf(<<Call(<<NonConst, NonConst, NonConst>>, {Prepare}), Forwarding>>)}

\* Lines 70-77: the pointer analysis builds the call graph, or fails.
Analyze ==
    /\ pc = "analyze"
    /\ started' = started \cup {"analyze"}
    /\ \/ /\ pc' = "exit"
          /\ exitCode' = 2
          /\ out' = Append(out, "error performing pointer analysis")
          /\ UNCHANGED cg
       \/ /\ cg' \in SampleGraphs
          /\ pc' = "walk"
          /\ UNCHANGED <<exitCode, out>>
    /\ UNCHANGED <<flags, pkgs, progVars, qms, mains, cg0, okFuncs, mi, todo, edge, bad,
                   queries, normVars>>

ReportQuietHidesFindings ==
    /\ pc = "returned"
    /\ started' = started \cup {"report"}
    /\ IF flags.print
       THEN Exit(0, [i \in 1..Len(queries) |-> "query"])
       ELSE IF Len(bad) = 0 \/ flags.quiet
            THEN Exit(0, IF ~flags.quiet THEN <<"You're safe">> ELSE <<>>)
            ELSE Exit(1, <<"Found">> \o [i \in 1..Len(bad) |-> "position"] \o <<"Please ensure">>)
    /\ UNCHANGED <<flags, pkgs, progVars, qms, mains, walkVars, normVars>>

\* Lines 80-102: the queries are printed, or the verdict is reported.
Report ==
    /\ pc = "returned"
    /\ started' = started \cup {"report"}
    /\ IF flags.print
       THEN Exit(0, [i \in 1..Len(queries) |-> "query"])
       ELSE IF Len(bad) = 0
            THEN Exit(0, IF ~flags.quiet THEN <<"You're safe">> ELSE <<>>)
            ELSE Exit(1, <<"Found">> \o [i \in 1..Len(bad) |-> "position"] \o <<"Please ensure">>)
    /\ UNCHANGED <<flags, pkgs, progVars, qms, mains, walkVars, normVars>>

Next ==
    \/ ParseArgs
    \/ Load
    \/ Catalog
    \/ Mains
    \/ Analyze
    \/ WalkNext
    \/ Report

\* The flags and the packages named on the command line.
Init ==
    /\ pc = "start"
    /\ flags \in [print : BOOLEAN, verbose : BOOLEAN, quiet : BOOLEAN]
    /\ pkgs \in {<<>>, <<"app">>}
    /\ exitCode = -1
    /\ out = <<>>
    /\ started = {}
    /\ qms = <<>>
    /\ mains = <<>>
    /\ IdleProg /\ IdleWalk /\ IdleNorm

Spec == Init /\ [][Next]_vars

(***************************************************************************)
(* FindQueryMethods on every scope of the library universe.                *)
(***************************************************************************)
InitCatalog ==
    /\ pc = "catalog"
    /\ \E pick \in DBMethodPicks : \E sigs \in [1..Len(pick) -> Signatures] :
          \E cs \in ConnMethodLists : lib = Scope(DBMethods(pick, sigs), cs)
    /\ units = <<>>
    /\ qms = <<>>
    /\ mains = <<>>
    /\ IdleMain /\ IdleWalk /\ IdleNorm

SpecCatalog == InitCatalog /\ [][Catalog]_vars

(***************************************************************************)
(* FindMains on every list of at most MaxPkgs packages.                    *)
(***************************************************************************)
InitMains ==
    /\ pc = "mains"
    /\ lib = <<>>
    /\ \E k \in 0..MaxPkgs : units \in [1..k -> PackageUniverse]
    /\ qms = <<>>
    /\ mains = <<>>
    /\ IdleMain /\ IdleWalk /\ IdleNorm

SpecMains == InitMains /\ [][Mains]_vars

(***************************************************************************)
(* The normalisation on every text of at most MaxLen characters.           *)
(***************************************************************************)
InitNorm ==
    /\ pc = "clean"
    /\ \E k \in 0..MaxLen : query \in [1..k -> Chars]
    /\ clean = <<>>
    /\ again = <<>>
    /\ qms = <<>>
    /\ mains = <<>>
    /\ IdleMain /\ IdleProg /\ IdleWalk

\* Lines 211-212, on the text of a constant.
CleanOnce ==
    /\ pc = "clean"
    /\ clean' = Clean(query)
    /\ pc' = "cleaned"
    /\ UNCHANGED <<query, again, mainVars, progVars, qms, mains, walkVars>>

\* Lines 211-212, on a text that is itself a cleaned text.
CleanAgain ==
    /\ pc = "cleaned"
    /\ again' = Clean(clean)
    /\ pc' = "cleaned twice"
    /\ UNCHANGED <<query, clean, mainVars, progVars, qms, mains, walkVars>>

NormNext == CleanOnce \/ CleanAgain

SpecNorm == InitNorm /\ [][NormNext]_vars

(***************************************************************************)
(* The claims.                                                             *)
(***************************************************************************)
Sinks == {qms[i].SSA : i \in 1..Len(qms)}

\* The number of times x occurs in the sequence s.
Occurrences(s, x) == Cardinality({k \in 1..Len(s) : s[k] = x})

NoDuplicates(s) == \A x \in SeqToSet(s) : Occurrences(s, x) = 1

\* The incoming edges of the cataloged sinks whose caller is no cataloged sink,
\* each with the catalog entry it comes into.
Reaching == {p \in (1..Len(qms)) \X cg.edges :
                p[2].Callee = qms[p[1]].SSA /\ p[2].Site.parent \notin Sinks}

\* The argument at the sink's sensitive parameter index, the receiver set aside.
Sensitive(p) ==
    LET m == qms[p[1]]
        as == p[2].Site.args
    IN  IF Len(as) = m.ArgCount + 1 THEN as[m.Param + 2] ELSE as[m.Param + 1]

\* The normalized texts of the literals of the analysed programs, written out.
Normalized(v) ==
    CASE v = <<"a">> -> <<"a">>
      [] v = <<"a", SP, "LF", SP, "b">> -> <<"a", SP, "b">>

\* C1: when FindNonConstCalls returns, every incoming edge of a cataloged sink
\* whose caller is no cataloged sink has been counted once: with a constant at
\* the sensitive parameter its normalized text is in queries and its site is not
\* added to bad, with anything else its site is in bad and nothing is added to
\* queries; nothing else is in bad or in queries.
C1_Classification ==
    pc = "returned" =>
        /\ Len(bad) = Cardinality({p \in Reaching : ~Sensitive(p).const})
        /\ Len(queries) = Cardinality({p \in Reaching : Sensitive(p).const})
        /\ \A s \in {e.Site : e \in cg.edges} :
              Occurrences(bad, s) =
                  Cardinality({p \in Reaching : p[2].Site = s /\ ~Sensitive(p).const})
        /\ \A v \in Literals :
              Occurrences(queries, Normalized(v)) =
                  Cardinality({p \in Reaching : Sensitive(p) = Const(v)})

\* Scenario A: one call with a literal gives no unsafe site and one query, normalized.
C1_Witness ==
    /\ pc = "returned"
    /\ Cardinality(Reaching) = 1
    /\ bad = <<>>
    /\ queries = << <<"a", SP, "b">> >>

\* C2: no call site held by a cataloged sink function is ever in bad.
C2_ForwardingExcluded ==
    \A k \in 1..Len(bad) : bad[k].parent \notin Sinks

\* A sink called from a cataloged sink with a value that is no constant, walked.
C2_Witness ==
    /\ pc = "returned"
    /\ \E e \in cg.edges :
          /\ e.Callee \in Sinks
          /\ e.Site.parent \in Sinks
          /\ \A i \in 1..Len(e.Site.args) : ~e.Site.args[i].const

\* C3: a step on an edge whose caller is no cataloged sink classifies the
\* argument list as it is when it has as many arguments as the sink has
\* parameters, classifies it without its first argument when it has one more,
\* and panics without adding to bad or queries otherwise; after a panic
\* FindNonConstCalls never returns.
C3_ReceiverOffset ==
    [][/\ (pc = "range node.In" /\ todo' # todo /\ edge'.Site.parent \notin Sinks) =>
            LET m == qms[mi]
                as == edge'.Site.args
                ClassifiedOn(list) ==
                    /\ pc' = "range node.In"
                    /\ IF list[m.Param + 1].const
                       THEN /\ queries' = Append(queries, Clean(ExactString(list[m.Param + 1].value)))
                            /\ bad' = bad
                       ELSE /\ bad' = Append(bad, edge'.Site)
                            /\ queries' = queries
            IN  /\ Len(as) = m.ArgCount => ClassifiedOn(as)
                /\ Len(as) = m.ArgCount + 1 => ClassifiedOn(Tail(as))
                /\ Len(as) \notin {m.ArgCount, m.ArgCount + 1} =>
                       pc' = "panic" /\ bad' = bad /\ queries' = queries
       /\ pc = "panic" => pc' = "panic"]_vars

\* A method call with a constant after its receiver was classified as a constant.
C3_Witness ==
    /\ pc = "range node.In"
    /\ edge.Callee = qms[mi].SSA
    /\ edge.Site.parent \notin Sinks
    /\ Len(edge.Site.args) = qms[mi].ArgCount + 1
    /\ ~edge.Site.args[1].const
    /\ Len(queries) = 1

\* C4: the catalog holds exactly the exported methods of exported types that have
\* a string parameter named query, each once, with the index of that parameter
\* (from zero) and the number of declared parameters; the run goes on to the
\* entry points whatever the catalog holds.
C4_Catalog ==
    "catalog" \in started =>
      /\ pc = "mains"
      /\
        LET Qualifies(d) ==
                /\ lib[d[1]].kind = "TypeName"
                /\ Exported(lib[d[1]].name)
                /\ Exported(lib[d[1]].methods[d[2]].name)
                /\ \E j \in 1..Len(lib[d[1]].methods[d[2]].params) :
                      lib[d[1]].methods[d[2]].params[j] = Param("query", "string")
            Identity(d) == <<lib[d[1]].name, lib[d[1]].methods[d[2]].name>>
            sinks == {d \in DeclaredMethods(lib) : Qualifies(d)}
        IN  /\ {qms[x].Func : x \in 1..Len(qms)} = {Identity(d) : d \in sinks}
            /\ Len(qms) = Cardinality(sinks)
            /\ \A x \in 1..Len(qms) : \A d \in sinks :
                  Identity(d) = qms[x].Func =>
                      LET ps == lib[d[1]].methods[d[2]].params
                      IN  /\ qms[x].SSA = qms[x].Func
                          /\ qms[x].ArgCount = Len(ps)
                          /\ qms[x].Param \in 0..(Len(ps) - 1)
                          /\ ps[qms[x].Param + 1] = Param("query", "string")

\* A catalog of one sink, its query parameter second, from a scope that also
\* declares an exported method of DB whose query parameter is no string and a
\* method with a string parameter named query on the unexported type.
C4_Witness ==
    /\ "catalog" \in started
    /\ Len(qms) = 1
    /\ qms[1].Param = 1
    /\ Len(lib[3].methods) = 1
    /\ \E i \in 1..Len(lib[1].methods) :
          /\ Exported(lib[1].methods[i].name)
          /\ \E j \in 1..Len(lib[1].methods[i].params) :
                lib[1].methods[i].params[j] = Param("query", "[]byte")

\* C5: FindMains returns exactly the initial packages that define a function
\* main without parameters.
C5_EntryPoints ==
    "mains" \in started =>
        SeqToSet(mains) = {i \in 1..Len(units) : units[i].initial /\ units[i].main = "func()"}

\* C6: without any entry point the run ends with the message and status 2, and
\* neither the pointer analysis nor the walk is ever entered.
C6_NoMains ==
    ("mains" \in started /\ Len(mains) = 0) =>
        /\ pc = "exit"
        /\ exitCode = 2
        /\ out # <<>>
        /\ out[Len(out)] = "Did not find any commands"
        /\ "analyze" \notin started
        /\ "walk" \notin started
        /\ cg = EmptyGraph

\* A loaded program none of whose initial packages has a main function.
C6_Witness ==
    /\ "mains" \in started
    /\ Len(mains) = 0
    /\ Len(units) > 1
    /\ pc = "exit"

\* C7: cleaning a cleaned text gives the same text.
C7_Idempotent ==
    pc = "cleaned twice" => again = clean

\* A text with an escape, a quote and a space, which cleaning changed.
C7_Witness ==
    /\ pc = "cleaned twice"
    /\ BS \in SeqToSet(query)
    /\ DQ \in SeqToSet(query)
    /\ clean # query
    /\ clean # <<>>

\* C8: no call site is twice in bad and no text is twice in queries.
C8_Deduplicated ==
    pc = "returned" => NoDuplicates(bad) /\ NoDuplicates(queries)

\* C9: without -p, a run that reports exits with 1 exactly when bad is not empty
\* and with 0 exactly when it is; the findings are printed exactly when there
\* are any, whatever -q says, and -q only withholds the all-clear message.
C9_ExitStatus ==
    (pc = "exit" /\ "report" \in started /\ ~flags.print) =>
        /\ exitCode = 1 <=> Len(bad) > 0
        /\ exitCode = 0 <=> Len(bad) = 0
        /\ Occurrences(out, "Found") = (IF Len(bad) > 0 THEN 1 ELSE 0)
        /\ Occurrences(out, "position") = Len(bad)
        /\ Occurrences(out, "You're safe") = (IF Len(bad) = 0 /\ ~flags.quiet THEN 1 ELSE 0)

\* A run with -q that found an unsafe call site.
C9_Witness ==
    /\ pc = "exit"
    /\ "report" \in started
    /\ ~flags.print
    /\ flags.quiet
    /\ Len(bad) > 0
    /\ exitCode = 1

\* C10, as claimed: the graph is the same after FindNonConstCalls as before.
C10_GraphUntouched ==
    pc = "returned" => cg = cg0

\* C10, amended: FindNonConstCalls changes the graph only by deleting the
\* synthetic nodes other than the root and the package initializers, with an
\* edge from each site that called one to each of its callees in their place,
\* and by adding a node for every cataloged sink; the other nodes and the edges
\* between them are those of the graph passed in.
C10_GraphNormalized ==
    pc = "returned" =>
        LET removed == {f \in cg0.nodes : Synthetic(f) /\ f # RootFn /\ ~IsInit(f)}
            kept == cg0.nodes \ removed
            through == {p \in cg0.edges \X cg0.edges :
                            /\ p[1].Callee \in removed
                            /\ p[2].Caller = p[1].Callee
                            /\ p[1].Caller \in kept
                            /\ p[2].Callee \in kept}
        IN  /\ cg.nodes = kept \cup Sinks
            /\ cg.edges = {e \in cg0.edges : e.Caller \in kept /\ e.Callee \in kept}
                          \cup {Edge(p[1].Caller, p[1].Site, p[2].Callee) : p \in through}

\* A graph with a wrapper and without a node for a cataloged sink, walked.
C10_Witness ==
    /\ pc = "returned"
    /\ BoundPrepare \in cg0.nodes
    /\ PrepareContext \in Sinks
    /\ PrepareContext \notin cg0.nodes

=============================================================================
